---- MODULE Spec2Model ----
\* A model of the counter program of src/src/lib.rs: the instruction decoder
\* (CounterInstruction::unpack), the two handlers (process_initialize_counter,
\* process_increment_counter), the Borsh codec of CounterAccount, and the part
\* of the host the handlers call (Rent, invoke of system create_account).
\*
\* A u64 is kept as four 16-bit limbs, least significant first, because the
\* values of interest (u64::MAX) exceed the integers of the model checker.
\* Account data and instruction buffers are sequences of bytes 0..255.
EXTENDS Integers, Sequences, FiniteSets, TLC

VARIABLES
    ledger,     \* key -> [owner, lamports, data]: the host's accounts
    pc,         \* "idle" | "returned": where the host is in one invocation
    inv,        \* the invocation delivered: [data, accounts, signers], or NoInv
    result,     \* the ProgramResult of the invocation, "none" outside "returned"
    pre,        \* the ledger as it was when the invocation was delivered
    hist,       \* key -> [c0, n]: count at activation, successful increments since
    committed,  \* number of invocations that returned Ok so far
    tally       \* caller -> [sent, ok]: invocations a caller has had run, and
                \* its increments that returned Ok, per account

vars == <<ledger, pc, inv, result, pre, hist, committed, tally>>

-----------------------------------------------------------------------------
\* Bounds of the model.

\* Invocations that return Ok in one behaviour.
MaxCommitted == 3
\* Account handles passed to one invocation.
MaxAccounts == 4
\* Bytes appended after a complete instruction.
MaxTrailing == 1
\* Increment invocations one caller submits.
MaxSent == 2

-----------------------------------------------------------------------------
\* u64 arithmetic and byte order.

LimbBase == 65536
ByteBase == 256

U64 == [1..4 -> 0..(LimbBase - 1)]

U64_MAX == [i \in 1..4 |-> LimbBase - 1]

U64Of(n) == [i \in 1..4 |-> IF i = 1 THEN n ELSE 0]

\* u64::from_le_bytes on an 8-byte array: byte 1 is the least significant.
from_le_bytes(b) == [i \in 1..4 |-> b[2 * i - 1] + ByteBase * b[2 * i]]

\* u64::to_le_bytes.
to_le_bytes(x) ==
    [j \in 1..8 |-> IF j % 2 = 1 THEN x[(j + 1) \div 2] % ByteBase
                                 ELSE x[j \div 2] \div ByteBase]

None == [some |-> FALSE]
Some(x) == [some |-> TRUE, value |-> x]

\* u64::checked_add(self, 1): None on overflow, else the successor. The
\* lowest limb that is not full is incremented and the limbs below it wrap.
checked_add_one_wrapping(x) ==
    IF x = U64_MAX THEN Some([i \in 1..4 |-> 0])
    ELSE LET k == CHOOSE i \in 1..4 :
                    /\ x[i] # LimbBase - 1
                    /\ \A j \in 1..(i - 1) : x[j] = LimbBase - 1
         IN  Some([i \in 1..4 |-> IF i < k THEN 0
                                  ELSE IF i = k THEN x[i] + 1 ELSE x[i]])

checked_add_one_no_carry(x) ==
    IF x = U64_MAX THEN None
    ELSE Some([i \in 1..4 |-> IF i = 1 THEN (x[1] + 1) % LimbBase ELSE x[i]])

checked_add_one(x) ==
    IF x = U64_MAX THEN None
    ELSE LET k == CHOOSE i \in 1..4 :
                    /\ x[i] # LimbBase - 1
                    /\ \A j \in 1..(i - 1) : x[j] = LimbBase - 1
         IN  Some([i \in 1..4 |-> IF i < k THEN 0
                                  ELSE IF i = k THEN x[i] + 1 ELSE x[i]])

-----------------------------------------------------------------------------
\* Results.

Ok(x) == [ok |-> TRUE, value |-> x]
Err(e) == [ok |-> FALSE, error |-> e]

-----------------------------------------------------------------------------
\* Borsh codec of CounterAccount { count: u64 }.

\* BorshSerialize for CounterAccount: the 8 little-endian bytes of count.
serialize_bytes_be(counter_data) ==
    [j \in 1..8 |-> to_le_bytes(counter_data.count)[9 - j]]

serialize_bytes(counter_data) == to_le_bytes(counter_data.count)

\* counter_data.serialize(&mut slice): io::Write for &mut [u8] copies the
\* bytes to the front of the slice; a slice too short is an io error.
serialize_into(counter_data, slice) ==
    LET bytes == serialize_bytes(counter_data) IN
    IF Len(slice) < Len(bytes) THEN Err("WriteZero")
    ELSE Ok([j \in 1..Len(slice) |-> IF j <= Len(bytes) THEN bytes[j] ELSE slice[j]])

\* CounterAccount::try_from_slice: reads 8 bytes; fewer is an error, and so
\* is any byte left unread.
try_from_slice_prefix(data) ==
    IF Len(data) < 8 THEN Err("BorshIoError")
    ELSE Ok([count |-> from_le_bytes(SubSeq(data, 1, 8))])

try_from_slice(data) ==
    IF Len(data) < 8 THEN Err("BorshIoError")
    ELSE IF Len(data) > 8 THEN Err("BorshIoError")
    ELSE Ok([count |-> from_le_bytes(SubSeq(data, 1, 8))])

-----------------------------------------------------------------------------
\* CounterInstruction::unpack.

InitializeCounter(v) == [variant |-> "InitializeCounter", initial_value |-> v]
IncrementCounter == [variant |-> "IncrementCounter"]

unpack_strict_increment(input) ==
    IF input = <<>> THEN Err("InvalidInstructionData")
    ELSE LET variant == Head(input)
             rest == Tail(input)
         IN  CASE variant = 0 ->
                    IF Len(rest) = 8 THEN Ok(InitializeCounter(from_le_bytes(rest)))
                    ELSE Err("InvalidInstructionData")
               [] variant = 1 ->
                    IF rest = <<>> THEN Ok(IncrementCounter)
                    ELSE Err("InvalidInstructionData")
               [] OTHER -> Err("InvalidInstructionData")

unpack_lenient_initialize(input) ==
    IF input = <<>> THEN Err("InvalidInstructionData")
    ELSE LET variant == Head(input)
             rest == Tail(input)
         IN  CASE variant = 0 ->
                    Ok(InitializeCounter(from_le_bytes(
                        [j \in 1..8 |-> IF j <= Len(rest) THEN rest[j] ELSE 0])))
               [] variant = 1 -> Ok(IncrementCounter)
               [] OTHER -> Err("InvalidInstructionData")

unpack_prefix_initialize(input) ==
    IF input = <<>> THEN Err("InvalidInstructionData")
    ELSE LET variant == Head(input)
             rest == Tail(input)
         IN  CASE variant = 0 ->
                    IF Len(rest) >= 8
                    THEN Ok(InitializeCounter(from_le_bytes(SubSeq(rest, 1, 8))))
                    ELSE Err("InvalidInstructionData")
               [] variant = 1 -> Ok(IncrementCounter)
               [] OTHER -> Err("InvalidInstructionData")

unpack_default_increment(input) ==
    IF input = <<>> THEN Ok(IncrementCounter)
    ELSE LET variant == Head(input)
             rest == Tail(input)
         IN  CASE variant = 0 ->
                    IF Len(rest) = 8 THEN Ok(InitializeCounter(from_le_bytes(rest)))
                    ELSE Err("InvalidInstructionData")
               [] OTHER -> Ok(IncrementCounter)

unpack(input) ==
    IF input = <<>> THEN Err("InvalidInstructionData")
    ELSE LET variant == Head(input)
             rest == Tail(input)
         IN  CASE variant = 0 ->
                    IF Len(rest) = 8 THEN Ok(InitializeCounter(from_le_bytes(rest)))
                    ELSE Err("InvalidInstructionData")
               [] variant = 1 -> Ok(IncrementCounter)
               [] OTHER -> Err("InvalidInstructionData")

-----------------------------------------------------------------------------
\* The host: accounts, rent, and the system program's create_account.

ProgramId == "counter_program"
SystemProgramId == "system_program"
OtherProgramId == "other_program"
NativeLoaderId == "native_loader"

Keys == {"counter", "other", "payer", SystemProgramId}

Zeroes(n) == [j \in 1..n |-> 0]

\* Rent::minimum_balance of the default rent: (overhead + bytes) * lamports
\* per byte-year * exemption threshold.
minimum_balance(space) == (128 + space) * 3480 * 2

\* invoke(&system_instruction::create_account(from, to, lamports, space, owner),
\* account_infos): the host checks the privileges of the instruction's accounts
\* and finds the system program, and the system program then allocates `to`.
invoke_create_account(L, account_infos, signers, from, to, lamports, space, owner) ==
    CASE SystemProgramId \notin account_infos -> [result |-> "MissingAccount", ledger |-> L]
      [] from \notin signers \/ to \notin signers ->
            [result |-> "PrivilegeEscalation", ledger |-> L]
      [] L[to].lamports > 0 -> [result |-> "AccountAlreadyInUse", ledger |-> L]
      [] L[to].data # <<>> \/ L[to].owner # SystemProgramId ->
            [result |-> "AccountAlreadyInUse", ledger |-> L]
      [] L[from].data # <<>> -> [result |-> "InvalidArgument", ledger |-> L]
      [] lamports > L[from].lamports -> [result |-> "InsufficientFunds", ledger |-> L]
      [] L[from].owner # SystemProgramId ->
            [result |-> "ExternalAccountLamportSpend", ledger |-> L]
      [] OTHER ->
            [result |-> "Ok",
             ledger |-> [L EXCEPT ![from].lamports = @ - lamports,
                                  ![to] = [owner |-> owner, lamports |-> lamports,
                                           data |-> Zeroes(space)]]]

-----------------------------------------------------------------------------
\* The handlers. Each returns the ProgramResult and the ledger as the handler
\* leaves it.

account_space == 8

process_initialize_counter_no_write(L, program_id, accounts, signers, initial_value) ==
    IF Len(accounts) < 3 THEN [result |-> "NotEnoughAccountKeys", ledger |-> L]
    ELSE
    LET counter_account == accounts[1]
        payer_account == accounts[2]
        system_program == accounts[3]
        required_lamports == minimum_balance(account_space)
        cpi == invoke_create_account(L,
                    {payer_account, counter_account, system_program}, signers,
                    payer_account, counter_account, required_lamports,
                    account_space, program_id)
    IN  cpi

process_initialize_counter_wrong_space(L, program_id, accounts, signers, initial_value) ==
    IF Len(accounts) < 3 THEN [result |-> "NotEnoughAccountKeys", ledger |-> L]
    ELSE
    LET counter_account == accounts[1]
        payer_account == accounts[2]
        system_program == accounts[3]
        required_lamports == minimum_balance(account_space + 1)
        cpi == invoke_create_account(L,
                    {payer_account, counter_account, system_program}, signers,
                    payer_account, counter_account, required_lamports,
                    account_space + 1, program_id)
    IN  IF cpi.result # "Ok" THEN [result |-> cpi.result, ledger |-> L]
        ELSE
        LET counter_data == [count |-> initial_value]
            written == serialize_into(counter_data, cpi.ledger[counter_account].data)
        IN  IF ~written.ok THEN [result |-> "Panic", ledger |-> cpi.ledger]
            ELSE [result |-> "Ok",
                  ledger |-> [cpi.ledger EXCEPT ![counter_account].data = written.value]]

process_initialize_counter_ignore_invoke_error(L, program_id, accounts, signers, initial_value) ==
    IF Len(accounts) < 3 THEN [result |-> "NotEnoughAccountKeys", ledger |-> L]
    ELSE
    LET counter_account == accounts[1]
        payer_account == accounts[2]
        system_program == accounts[3]
        required_lamports == minimum_balance(account_space)
        cpi == invoke_create_account(L,
                    {payer_account, counter_account, system_program}, signers,
                    payer_account, counter_account, required_lamports,
                    account_space, program_id)
        counter_data == [count |-> initial_value]
        written == serialize_into(counter_data, cpi.ledger[counter_account].data)
    IN  IF ~written.ok THEN [result |-> "Panic", ledger |-> cpi.ledger]
        ELSE [result |-> "Ok",
              ledger |-> [cpi.ledger EXCEPT ![counter_account].data = written.value]]

process_initialize_counter_short_space(L, program_id, accounts, signers, initial_value) ==
    IF Len(accounts) < 3 THEN [result |-> "NotEnoughAccountKeys", ledger |-> L]
    ELSE
    LET counter_account == accounts[1]
        payer_account == accounts[2]
        system_program == accounts[3]
        required_lamports == minimum_balance(account_space - 1)
        cpi == invoke_create_account(L,
                    {payer_account, counter_account, system_program}, signers,
                    payer_account, counter_account, required_lamports,
                    account_space - 1, program_id)
    IN  IF cpi.result # "Ok" THEN [result |-> cpi.result, ledger |-> L]
        ELSE
        LET counter_data == [count |-> initial_value]
            written == serialize_into(counter_data, cpi.ledger[counter_account].data)
        IN  IF ~written.ok THEN [result |-> "Panic", ledger |-> cpi.ledger]
            ELSE [result |-> "Ok",
                  ledger |-> [cpi.ledger EXCEPT ![counter_account].data = written.value]]

process_initialize_counter(L, program_id, accounts, signers, initial_value) ==
    IF Len(accounts) < 3 THEN [result |-> "NotEnoughAccountKeys", ledger |-> L]
    ELSE
    LET counter_account == accounts[1]
        payer_account == accounts[2]
        system_program == accounts[3]
        required_lamports == minimum_balance(account_space)
        cpi == invoke_create_account(L,
                    {payer_account, counter_account, system_program}, signers,
                    payer_account, counter_account, required_lamports,
                    account_space, program_id)
    IN  IF cpi.result # "Ok" THEN [result |-> cpi.result, ledger |-> L]
        ELSE
        LET counter_data == [count |-> initial_value]
            written == serialize_into(counter_data, cpi.ledger[counter_account].data)
        IN  IF ~written.ok THEN [result |-> "Panic", ledger |-> cpi.ledger]
            ELSE [result |-> "Ok",
                  ledger |-> [cpi.ledger EXCEPT ![counter_account].data = written.value]]

process_increment_counter_no_owner_check(L, program_id, accounts) ==
    IF Len(accounts) < 1 THEN [result |-> "NotEnoughAccountKeys", ledger |-> L]
    ELSE
    LET counter_account == accounts[1]
        data == L[counter_account].data
        parsed == try_from_slice(data)
    IN  IF ~parsed.ok THEN [result |-> parsed.error, ledger |-> L]
        ELSE
        LET sum == checked_add_one(parsed.value.count) IN
        IF ~sum.some THEN [result |-> "InvalidAccountData", ledger |-> L]
        ELSE
        LET written == serialize_into([count |-> sum.value], data) IN
        IF ~written.ok THEN [result |-> "Panic", ledger |-> L]
        ELSE [result |-> "Ok",
              ledger |-> [L EXCEPT ![counter_account].data = written.value]]

process_increment_counter_no_write_back(L, program_id, accounts) ==
    IF Len(accounts) < 1 THEN [result |-> "NotEnoughAccountKeys", ledger |-> L]
    ELSE
    LET counter_account == accounts[1] IN
    IF L[counter_account].owner # program_id
    THEN [result |-> "IncorrectProgramId", ledger |-> L]
    ELSE
    LET data == L[counter_account].data
        parsed == try_from_slice(data)
    IN  IF ~parsed.ok THEN [result |-> parsed.error, ledger |-> L]
        ELSE
        LET sum == checked_add_one(parsed.value.count) IN
        IF ~sum.some THEN [result |-> "InvalidAccountData", ledger |-> L]
        ELSE
        LET written == serialize_into([count |-> sum.value], data) IN
        IF ~written.ok THEN [result |-> "Panic", ledger |-> L]
        ELSE [result |-> "Ok", ledger |-> L]

process_increment_counter_exact_accounts(L, program_id, accounts) ==
    IF Len(accounts) # 1 THEN [result |-> "NotEnoughAccountKeys", ledger |-> L]
    ELSE
    LET counter_account == accounts[1] IN
    IF L[counter_account].owner # program_id
    THEN [result |-> "IncorrectProgramId", ledger |-> L]
    ELSE
    LET data == L[counter_account].data
        parsed == try_from_slice(data)
    IN  IF ~parsed.ok THEN [result |-> parsed.error, ledger |-> L]
        ELSE
        LET sum == checked_add_one(parsed.value.count) IN
        IF ~sum.some THEN [result |-> "InvalidAccountData", ledger |-> L]
        ELSE
        LET written == serialize_into([count |-> sum.value], data) IN
        IF ~written.ok THEN [result |-> "Panic", ledger |-> L]
        ELSE [result |-> "Ok",
              ledger |-> [L EXCEPT ![counter_account].data = written.value]]

process_increment_counter_last_account(L, program_id, accounts) ==
    IF Len(accounts) < 1 THEN [result |-> "NotEnoughAccountKeys", ledger |-> L]
    ELSE
    LET counter_account == accounts[Len(accounts)] IN
    IF L[counter_account].owner # program_id
    THEN [result |-> "IncorrectProgramId", ledger |-> L]
    ELSE
    LET data == L[counter_account].data
        parsed == try_from_slice(data)
    IN  IF ~parsed.ok THEN [result |-> parsed.error, ledger |-> L]
        ELSE
        LET sum == checked_add_one(parsed.value.count) IN
        IF ~sum.some THEN [result |-> "InvalidAccountData", ledger |-> L]
        ELSE
        LET written == serialize_into([count |-> sum.value], data) IN
        IF ~written.ok THEN [result |-> "Panic", ledger |-> L]
        ELSE [result |-> "Ok",
              ledger |-> [L EXCEPT ![counter_account].data = written.value]]

process_increment_counter(L, program_id, accounts) ==
    IF Len(accounts) < 1 THEN [result |-> "NotEnoughAccountKeys", ledger |-> L]
    ELSE
    LET counter_account == accounts[1] IN
    IF L[counter_account].owner # program_id
    THEN [result |-> "IncorrectProgramId", ledger |-> L]
    ELSE
    LET data == L[counter_account].data
        parsed == try_from_slice(data)
    IN  IF ~parsed.ok THEN [result |-> parsed.error, ledger |-> L]
        ELSE
        LET sum == checked_add_one(parsed.value.count) IN
        IF ~sum.some THEN [result |-> "InvalidAccountData", ledger |-> L]
        ELSE
        LET written == serialize_into([count |-> sum.value], data) IN
        IF ~written.ok THEN [result |-> "Panic", ledger |-> L]
        ELSE [result |-> "Ok",
              ledger |-> [L EXCEPT ![counter_account].data = written.value]]

\* process_instruction: decode, then dispatch.
process_instruction(L, program_id, accounts, signers, instruction_data) ==
    LET instruction == unpack(instruction_data) IN
    IF ~instruction.ok THEN [result |-> instruction.error, ledger |-> L]
    ELSE IF instruction.value.variant = "InitializeCounter"
         THEN process_initialize_counter(L, program_id, accounts, signers,
                                         instruction.value.initial_value)
         ELSE process_increment_counter(L, program_id, accounts)

-----------------------------------------------------------------------------
\* Inputs of the model: the values, buffers and account lists a client sends.

\* 0x0807060504030201: every byte differs, so a byte-order slip shows.
Distinct == [i \in 1..4 |-> (2 * i) * ByteBase + (2 * i - 1)]

MaxMinusOne == [i \in 1..4 |-> IF i = 1 THEN LimbBase - 2 ELSE LimbBase - 1]

InitValues == {U64Of(0), U64Of(48), U64Of(ByteBase - 1), U64Of(LimbBase - 1),
               Distinct, MaxMinusOne, U64_MAX}

TrailingBytes == {0, ByteBase - 1}

\* Sequences of trailing bytes of length 0..n.
RECURSIVE Trailers(_)
Trailers(n) ==
    IF n = 0 THEN {<<>>}
    ELSE LET shorter == Trailers(n - 1) IN
         shorter \cup {Append(t, b) : t \in {u \in shorter : Len(u) = n - 1},
                                      b \in TrailingBytes}

\* The client's encoding of the two instructions (the test builds them so).
InitializeBuffer(v) == <<0>> \o to_le_bytes(v)
IncrementBuffer == <<1>>

Buffers ==
    {<<>>}
    \cup {InitializeBuffer(v) : v \in InitValues}
    \cup {InitializeBuffer(Distinct) \o t : t \in Trailers(MaxTrailing)}
    \cup {SubSeq(InitializeBuffer(Distinct), 1, n) : n \in 1..8}
    \cup {IncrementBuffer \o t : t \in Trailers(MaxTrailing)}
    \cup {<<2>> \o t : t \in Trailers(MaxTrailing)}
    \cup {<<ByteBase - 1>>}

\* Lists of distinct account keys of length 0..n.
RECURSIVE AccountLists(_)
AccountLists(n) ==
    IF n = 0 THEN {<<>>}
    ELSE LET shorter == AccountLists(n - 1) IN
         shorter \cup {Append(l, k) : l \in {u \in shorter : Len(u) = n - 1},
                                      k \in Keys}

Distinctly(l) == \A i, j \in 1..Len(l) : i # j => l[i] # l[j]

\* The account lists a client passes.
AccountInputs == {l \in AccountLists(MaxAccounts) : Distinctly(l)}

\* The accounts whose signatures the transaction carries.
SignerSets == {{}, {"payer"}, {"counter", "other", "payer"}}

NoInv == [data |-> <<>>, accounts |-> <<>>, signers |-> {}]

-----------------------------------------------------------------------------
\* The ledger the program is started on.

Uninitialized == [owner |-> SystemProgramId, lamports |-> 0, data |-> <<>>]

\* What a client may find at the counter's address: nothing; a funded system
\* account; an account of another program; an account assigned to this program
\* by someone else with no data or with data of the wrong length.
CounterTemplates ==
    {Uninitialized,
     [owner |-> SystemProgramId, lamports |-> 1, data |-> <<>>],
     [owner |-> OtherProgramId, lamports |-> minimum_balance(8),
      data |-> to_le_bytes(U64Of(48))],
     [owner |-> ProgramId, lamports |-> minimum_balance(0), data |-> <<>>],
     [owner |-> ProgramId, lamports |-> minimum_balance(7), data |-> Zeroes(7)],
     [owner |-> ProgramId, lamports |-> minimum_balance(9), data |-> Zeroes(9)]}

\* A counter created earlier, holding 255.
OtherTemplate ==
    [owner |-> ProgramId, lamports |-> minimum_balance(8),
     data |-> to_le_bytes(U64Of(ByteBase - 1))]

\* A payer that can fund a rent-exempt counter, and one a lamport short.
FundedPayer ==
    [owner |-> SystemProgramId, lamports |-> 2 * minimum_balance(8), data |-> <<>>]

ShortPayer ==
    [owner |-> SystemProgramId, lamports |-> minimum_balance(8) - 1, data |-> <<>>]

SystemProgramAccount ==
    [owner |-> NativeLoaderId, lamports |-> 1, data |-> <<>>]

LedgerOf(c, p) ==
    [k \in Keys |->
        CASE k = "counter" -> c
          [] k = "other" -> OtherTemplate
          [] k = "payer" -> p
          [] OTHER -> SystemProgramAccount]

InitialLedgers ==
    {LedgerOf(c, FundedPayer) : c \in CounterTemplates}
    \cup {LedgerOf(Uninitialized, ShortPayer)}

NoHist == [active |-> FALSE]

HistOf(L) ==
    [k \in Keys |->
        IF L[k].owner = ProgramId /\ try_from_slice(L[k].data).ok
        THEN [active |-> TRUE, c0 |-> try_from_slice(L[k].data).value.count, n |-> 0]
        ELSE NoHist]

\* The clients that submit increment invocations, and the counters they share.
Callers == {"alice", "bob", "carol"}

SharedKeys == {"counter", "other"}

ZeroTally == [c \in Callers |-> [sent |-> 0, ok |-> [k \in SharedKeys |-> 0]]]

Init ==
    /\ tally = ZeroTally
    /\ ledger \in InitialLedgers
    /\ pc = "idle"
    /\ inv = NoInv
    /\ result = "none"
    /\ pre = ledger
    /\ hist = HistOf(ledger)
    /\ committed = 0

-----------------------------------------------------------------------------
\* One invocation: the host delivers it and the program runs it to its
\* return; the host then commits or rolls back and releases the accounts.
\* hist records, for each account, the count it was activated with and the
\* number of increments that have returned Ok since.

HistAfter(h, instruction, accounts) ==
    IF instruction.variant = "InitializeCounter"
    THEN [h EXCEPT ![accounts[1]] =
                [active |-> TRUE, c0 |-> instruction.initial_value, n |-> 0]]
    ELSE [h EXCEPT ![accounts[1]].n = @ + 1]

Invoke(data, accounts, signers) ==
    /\ inv' = [data |-> data, accounts |-> accounts, signers |-> signers]
    /\ pre' = ledger
    /\ LET out == process_instruction(ledger, ProgramId, accounts, signers, data)
       IN  /\ ledger' = out.ledger
           /\ result' = out.result
           /\ hist' = IF out.result = "Ok"
                      THEN HistAfter(hist, unpack(data).value, accounts)
                      ELSE hist
           /\ committed' = IF out.result = "Ok" THEN committed + 1 ELSE committed
    /\ pc' = "returned"

\* The host runs one invocation at a time, with whatever a client sent.
Submit ==
    /\ pc = "idle"
    /\ committed < MaxCommitted
    /\ \E data \in Buffers, accounts \in AccountInputs, signers \in SignerSets :
          Invoke(data, accounts, signers)
    /\ UNCHANGED tally

Release ==
    /\ pc = "returned"
    /\ ledger' = IF result = "Ok" THEN ledger ELSE pre
    /\ pre' = ledger'
    /\ pc' = "idle"
    /\ inv' = NoInv
    /\ result' = "none"
    /\ UNCHANGED <<hist, committed, tally>>

Next ==
    \/ Submit
    \/ Release

Spec == Init /\ [][Next]_vars

-----------------------------------------------------------------------------
\* Several callers incrementing counters they share. The host takes their
\* invocations in any order and runs each to its return before the next: its
\* lock on a writable account lasts for the whole invocation.

\* The counts the shared counter starts with (as an earlier initialize left it).
StartCounts == {U64Of(0), U64Of(LimbBase - 1), MaxMinusOne}

ActiveCounter(c0) ==
    [owner |-> ProgramId, lamports |-> minimum_balance(account_space),
     data |-> to_le_bytes(c0)]

InitCallers ==
    /\ tally = ZeroTally
    /\ ledger \in {LedgerOf(ActiveCounter(c0), FundedPayer) : c0 \in StartCounts}
    /\ pc = "idle"
    /\ inv = NoInv
    /\ result = "none"
    /\ pre = ledger
    /\ hist = HistOf(ledger)
    /\ committed = 0

CallerSubmit(c) ==
    /\ pc = "idle"
    /\ tally[c].sent < MaxSent
    /\ \E k \in SharedKeys :
          /\ Invoke(IncrementBuffer, <<k>>, {})
          /\ tally' = [tally EXCEPT ![c].sent = @ + 1,
                                    ![c].ok[k] = IF result' = "Ok" THEN @ + 1 ELSE @]

NextCallers ==
    \/ \E c \in Callers : CallerSubmit(c)
    \/ Release

SpecCallers == InitCallers /\ [][NextCallers]_vars

-----------------------------------------------------------------------------
\* Vocabulary of the properties.

Returned == pc = "returned"

Decoded == unpack(inv.data)

IsInitialize ==
    Returned /\ Decoded.ok /\ Decoded.value.variant = "InitializeCounter"

IsIncrement ==
    Returned /\ Decoded.ok /\ Decoded.value.variant = "IncrementCounter"

FirstByte == IF inv.data = <<>> THEN -1 ELSE inv.data[1]

\* Active: the account holds a valid CounterRecord of this program.
Active(L, k) == L[k].owner = ProgramId /\ try_from_slice(L[k].data).ok

CountOf(L, k) == try_from_slice(L[k].data).value.count

\* x + n in unbounded arithmetic, limb by limb with carries.
PlusN(x, n) ==
    LET s1 == x[1] + n
        s2 == x[2] + (s1 \div LimbBase)
        s3 == x[3] + (s2 \div LimbBase)
        s4 == x[4] + (s3 \div LimbBase)
    IN  [overflow |-> s4 \div LimbBase > 0,
         value |-> <<s1 % LimbBase, s2 % LimbBase, s3 % LimbBase, s4 % LimbBase>>]

MaxBytes == [j \in 1..8 |-> ByteBase - 1]

-----------------------------------------------------------------------------
\* C1: a successful initialize invocation with payload [0x00] ++ le_bytes(v)
\* leaves the first account (Uninitialized before it) with exactly 8 bytes of
\* data, owned by this program, and the bytes decode to count = v.
C1_InitializeStoresValue ==
    \A v \in InitValues :
        (Returned /\ result = "Ok" /\ inv.data = InitializeBuffer(v)) =>
            LET k == inv.accounts[1] IN
            /\ pre[k] = Uninitialized
            /\ Len(ledger[k].data) = 8
            /\ ledger[k].owner = ProgramId
            /\ try_from_slice(ledger[k].data) = Ok([count |-> v])

C1_Witness ==
    /\ Returned /\ result = "Ok"
    /\ inv.data = InitializeBuffer(U64_MAX)
    /\ inv.accounts = <<"counter", "payer", SystemProgramId>>

\* C2: n successful increments of an Active record with count c0 leave it
\* decoding to c0 + n, and an increment of a program-owned record whose count
\* is below u64::MAX succeeds and changes the count by exactly +1.
C2_IncrementsAddUp ==
    /\ \A k \in Keys :
          hist[k].active =>
              /\ ~PlusN(hist[k].c0, hist[k].n).overflow
              /\ try_from_slice(ledger[k].data)
                    = Ok([count |-> PlusN(hist[k].c0, hist[k].n).value])
    /\ (IsIncrement /\ Len(inv.accounts) >= 1) =>
          LET k == inv.accounts[1] IN
          (Active(pre, k) /\ CountOf(pre, k) # U64_MAX) =>
              /\ result = "Ok"
              /\ CountOf(ledger, k) = PlusN(CountOf(pre, k), 1).value

C2_Witness ==
    /\ IsIncrement /\ result = "Ok"
    /\ hist["counter"].active /\ hist["counter"].n = 2
    /\ hist["counter"].c0 = U64Of(LimbBase - 1)

\* C3: an increment of a program-owned record whose count is u64::MAX fails
\* with the overflow error kind (InvalidAccountData in the code) and leaves
\* the 8 stored bytes unchanged.
C3_OverflowFails ==
    (IsIncrement /\ Len(inv.accounts) >= 1) =>
        LET k == inv.accounts[1] IN
        (pre[k].owner = ProgramId /\ pre[k].data = MaxBytes) =>
            /\ result = "InvalidAccountData"
            /\ ledger[k].data = MaxBytes
            /\ ledger = pre

C3_Witness ==
    /\ IsIncrement /\ inv.accounts # <<>>
    /\ pre[inv.accounts[1]].owner = ProgramId
    /\ pre[inv.accounts[1]].data = MaxBytes

\* C4: an increment whose first account is owned by another program than the
\* program identifier passed in fails with the not-owner error kind
\* (IncorrectProgramId in the code) and writes nothing, whatever the bytes.
C4_ForeignOwnerRejected ==
    (IsIncrement /\ Len(inv.accounts) >= 1) =>
        LET k == inv.accounts[1] IN
        pre[k].owner # ProgramId =>
            /\ result = "IncorrectProgramId"
            /\ ledger[k].data = pre[k].data
            /\ ledger = pre

C4_Witness ==
    /\ IsIncrement /\ inv.accounts # <<>>
    /\ pre[inv.accounts[1]].owner = OtherProgramId
    /\ Len(pre[inv.accounts[1]].data) = 8

C6_CodecRoundTrip ==
    \A v \in InitValues :
        (Returned /\ inv.data = InitializeBuffer(v)) =>
            /\ Decoded = Ok(InitializeCounter(v))
            /\ Len(serialize_bytes([count |-> v])) = 8
            /\ try_from_slice(serialize_bytes([count |-> v])) = Ok([count |-> v])
            /\ v = Distinct =>
                  /\ inv.data = <<0, 1, 2, 3, 4, 5, 6, 7, 8>>
                  /\ serialize_bytes([count |-> v]) = <<1, 2, 3, 4, 5, 6, 7, 8>>
            /\ v = U64Of(48) =>
                  serialize_bytes([count |-> v]) = <<48, 0, 0, 0, 0, 0, 0, 0>>

C6_Witness ==
    /\ Returned /\ result = "Ok"
    /\ inv.data = <<0, 1, 2, 3, 4, 5, 6, 7, 8>>
    /\ ledger[inv.accounts[1]].data = <<1, 2, 3, 4, 5, 6, 7, 8>>

\* C7: an instruction buffer that starts with 0x00 and has 1 to 8 bytes in
\* total fails with the decode error (InvalidInstructionData) and no handler
\* runs: nothing is allocated or written.
C7_ShortInitializeRejected ==
    (Returned /\ FirstByte = 0 /\ Len(inv.data) < 9) =>
        /\ ~Decoded.ok
        /\ result = "InvalidInstructionData"
        /\ ledger = pre

C7_Witness ==
    /\ Returned /\ FirstByte = 0 /\ Len(inv.data) = 8
    /\ inv.accounts = <<"counter", "payer", SystemProgramId>>
    /\ inv.signers = {"counter", "other", "payer"}
    /\ pre["counter"] = Uninitialized
    /\ pre["payer"].lamports >= minimum_balance(8)

\* C8: a buffer whose first byte is 0x01 decodes to IncrementCounter whatever
\* follows, and the invocation has the same result and effect as the same
\* invocation with the 1-byte buffer [0x01].
C8_IncrementIgnoresTrailing ==
    (Returned /\ FirstByte = 1) =>
        /\ Decoded = Ok(IncrementCounter)
        /\ [result |-> result, ledger |-> ledger]
              = process_instruction(pre, ProgramId, inv.accounts, inv.signers,
                                    IncrementBuffer)

C8_Witness ==
    /\ Returned /\ FirstByte = 1 /\ Len(inv.data) > 1
    /\ result = "Ok"
    /\ ledger # pre

\* C9 as stated: the failure on an unknown discriminant is reported as an
\* error kind different from the failure on an empty buffer.
C9_DistinctKinds ==
    (Returned /\ inv.data # <<>> /\ FirstByte \notin {0, 1}) =>
        /\ result # "Ok"
        /\ result # unpack(<<>>).error

\* C9 (amended): an empty buffer and a buffer whose first byte is neither 0x00
\* nor 0x01 both fail to decode, with one and the same error kind
\* (InvalidInstructionData), and no handler runs.
C9_UndecodableRejected ==
    (Returned /\ FirstByte \notin {0, 1}) =>
        /\ ~Decoded.ok
        /\ result = "InvalidInstructionData"
        /\ ledger = pre

C9_Witness ==
    /\ Returned /\ FirstByte = ByteBase - 1
    /\ inv.accounts = <<"other">>
    /\ Active(pre, "other")

\* C10: an account only moves Uninitialized -> Active -> Active. No step
\* takes an Active account out of Active, a step on an account without data
\* leaves it without data or makes it Active, and an account this program has
\* activated always holds exactly 8 bytes, owned by the program, that decode
\* to a u64 count.
Lifecycle ==
    \A k \in Keys :
        /\ Active(ledger, k) => Active(ledger', k)
        /\ ledger[k].data = <<>> => (ledger'[k].data = <<>> \/ Active(ledger', k))

ActivatedIsRecord ==
    \A k \in Keys :
        hist[k].active =>
            /\ ledger[k].owner = ProgramId
            /\ Len(ledger[k].data) = 8
            /\ try_from_slice(ledger[k].data).ok
            /\ CountOf(ledger, k) \in U64
            /\ to_le_bytes(CountOf(ledger, k)) = ledger[k].data

\* C10: every state satisfies ActivatedIsRecord and every step, the host's
\* rollback included, satisfies Lifecycle.
C10_Lifecycle == []ActivatedIsRecord /\ [][Lifecycle]_vars

C10_Witness ==
    /\ pc = "idle"
    /\ committed = MaxCommitted
    /\ hist["counter"].active /\ hist["counter"].n >= 1
    /\ Active(ledger, "counter")


\* C11 as stated: an increment against an account whose data is absent or
\* has a length other than 8 fails with the corrupt-data error kind
\* (BorshIoError in the code) and writes nothing.
C11_NotActiveIsCorrupt ==
    (IsIncrement /\ Len(inv.accounts) >= 1) =>
        LET k == inv.accounts[1] IN
        Len(pre[k].data) # 8 =>
            /\ result = "BorshIoError"
            /\ ledger = pre

\* C11 (amended): such an increment fails and writes nothing; the error is the
\* corrupt-data kind (BorshIoError) when the account is owned by this program,
\* and the not-owner kind (IncorrectProgramId) when it is not, as for a
\* never-initialized account, which the system program owns.
C11_NotActiveRejected ==
    (IsIncrement /\ Len(inv.accounts) >= 1) =>
        LET k == inv.accounts[1] IN
        Len(pre[k].data) # 8 =>
            /\ result = IF pre[k].owner = ProgramId THEN "BorshIoError"
                        ELSE "IncorrectProgramId"
            /\ ledger[k].data = pre[k].data
            /\ ledger = pre

C11_Witness ==
    /\ IsIncrement /\ inv.accounts # <<>>
    /\ pre[inv.accounts[1]].owner = ProgramId
    /\ Len(pre[inv.accounts[1]].data) = 9
    /\ result = "BorshIoError"


\* C12: an invocation that returns an error (decode failure, missing
\* accounts, ownership failure, allocation failure, corrupt data, overflow)
\* has left every account exactly as it was when the invocation started: no
\* account created, no lamports moved, no data byte changed.
ErrorKinds ==
    {"InvalidInstructionData", "NotEnoughAccountKeys", "IncorrectProgramId",
     "BorshIoError", "InvalidAccountData", "MissingAccount",
     "PrivilegeEscalation", "AccountAlreadyInUse", "InvalidArgument",
     "InsufficientFunds", "ExternalAccountLamportSpend"}

C12_ErrorLeavesLedger ==
    Returned =>
        /\ result \in ErrorKinds \cup {"Ok"}
        /\ result # "Ok" => ledger = pre

C12_Witness ==
    /\ IsInitialize /\ result = "InsufficientFunds"
    /\ pre[inv.accounts[1]] = Uninitialized
    /\ ledger[inv.accounts[1]] = Uninitialized


\* C13 as stated: in both handlers an invocation whose first account is
\* owned by a different program fails with the not-owner error kind
\* (IncorrectProgramId in the code).
C13_BothHandlersCheckOwner ==
    ((IsInitialize /\ Len(inv.accounts) >= 3)
        \/ (IsIncrement /\ Len(inv.accounts) >= 1)) =>
            (pre[inv.accounts[1]].owner = OtherProgramId =>
                result = "IncorrectProgramId")

\* C13 (amended): only the increment handler compares the owner, failing with
\* the not-owner kind before it touches the data. The initialize handler has no
\* owner check of its own: it writes only after the host's create_account has
\* succeeded, which needs an empty system-owned account and assigns it to this
\* program, so an initialize on another program's account fails with a host
\* error. In every case an account whose data an invocation changed is owned
\* by this program when it is written, and was owned by this program or was an
\* empty system account before.
C13_WritesOnlyOwnAccounts ==
    /\ (IsIncrement /\ Len(inv.accounts) >= 1) =>
          ((pre[inv.accounts[1]].owner # ProgramId)
                <=> (result = "IncorrectProgramId"))
    /\ (IsInitialize /\ Len(inv.accounts) >= 1) =>
          ((pre[inv.accounts[1]].owner # SystemProgramId) =>
              /\ result \in {"NotEnoughAccountKeys", "MissingAccount",
                             "PrivilegeEscalation", "AccountAlreadyInUse"}
              /\ ledger = pre)
    /\ Returned =>
          \A k \in Keys :
              (ledger[k].data # pre[k].data) =>
                  /\ ledger[k].owner = ProgramId
                  /\ \/ pre[k].owner = ProgramId
                     \/ (pre[k].owner = SystemProgramId /\ pre[k].data = <<>>)

C13_Witness ==
    /\ IsInitialize
    /\ inv.accounts = <<"counter", "payer", SystemProgramId>>
    /\ inv.signers = {"counter", "other", "payer"}
    /\ pre["counter"].owner = OtherProgramId
    /\ result = "AccountAlreadyInUse"


\* C14: callers submit increments against shared Active counters in any
\* order and the host runs them one at a time; no increment is lost: each
\* counter decodes to its starting count plus the number of increments on it
\* that returned success, summed over the callers.
RECURSIVE SumOk(_, _)
SumOk(S, k) ==
    IF S = {} THEN 0
    ELSE LET c == CHOOSE x \in S : TRUE IN tally[c].ok[k] + SumOk(S \ {c}, k)

C14_NoLostIncrement ==
    \A k \in SharedKeys :
        /\ Active(ledger, k)
        /\ ~PlusN(hist[k].c0, SumOk(Callers, k)).overflow
        /\ CountOf(ledger, k) = PlusN(hist[k].c0, SumOk(Callers, k)).value

C14_Witness ==
    /\ pc = "idle"
    /\ \A c \in Callers : tally[c].ok["counter"] = 1
    /\ tally["bob"].sent = 2 /\ tally["bob"].ok["other"] = 1
    /\ hist["counter"].c0 = U64Of(LimbBase - 1)


\* C15: an instruction buffer that starts with 0x00 and is longer than 9
\* bytes fails with the same decode error as a short one
\* (InvalidInstructionData); its first 8 payload bytes are not used: no
\* handler runs and nothing is allocated or written.
C15_LongInitializeRejected ==
    (Returned /\ FirstByte = 0 /\ Len(inv.data) > 9) =>
        /\ ~Decoded.ok
        /\ Decoded = unpack(SubSeq(inv.data, 1, 8))
        /\ result = "InvalidInstructionData"
        /\ ledger = pre

C15_Witness ==
    /\ Returned /\ FirstByte = 0 /\ Len(inv.data) = 10
    /\ SubSeq(inv.data, 1, 9) = InitializeBuffer(Distinct)
    /\ inv.accounts = <<"counter", "payer", SystemProgramId>>
    /\ inv.signers = {"counter", "other", "payer"}
    /\ pre["counter"] = Uninitialized
    /\ pre["payer"].lamports >= minimum_balance(8)
    /\ ledger["counter"] = Uninitialized


\* C16: an initialize invocation with fewer than 3 accounts, or an increment
\* invocation with no account, fails with NotEnoughAccountKeys and nothing is
\* allocated or written; accounts beyond the expected ones are ignored: the
\* invocation has the result and effect of the same invocation with only the
\* first 3 (initialize) or the first (increment) account.
Outcome == [result |-> result, ledger |-> ledger]

C16_AccountListLength ==
    /\ (IsInitialize /\ Len(inv.accounts) < 3) =>
          (result = "NotEnoughAccountKeys" /\ ledger = pre)
    /\ (IsIncrement /\ Len(inv.accounts) = 0) =>
          (result = "NotEnoughAccountKeys" /\ ledger = pre)
    /\ (IsInitialize /\ Len(inv.accounts) > 3) =>
          Outcome = process_instruction(pre, ProgramId, SubSeq(inv.accounts, 1, 3),
                                        inv.signers, inv.data)
    /\ (IsIncrement /\ Len(inv.accounts) > 1) =>
          Outcome = process_instruction(pre, ProgramId, SubSeq(inv.accounts, 1, 1),
                                        inv.signers, inv.data)

C16_Witness ==
    /\ IsInitialize
    /\ inv.accounts = <<"counter", "payer">>
    /\ inv.signers = {"counter", "other", "payer"}
    /\ pre["counter"] = Uninitialized
    /\ pre["payer"].lamports >= minimum_balance(8)
    /\ result = "NotEnoughAccountKeys"
    /\ ledger = pre


\* C17: once an account is Active it stays Active and its decoded count never
\* decreases; one invocation changes it by 0 or by exactly +1, and by +1
\* exactly when the invocation is a successful increment of that account; an
\* initialize never changes the count of an Active account, so no instruction
\* sequence sets it to a value the caller chose.
SuccessfulIncrementOf(k) ==
    /\ pc = "idle" /\ pc' = "returned"
    /\ result' = "Ok"
    /\ unpack(inv'.data) = Ok(IncrementCounter)
    /\ Len(inv'.accounts) >= 1
    /\ inv'.accounts[1] = k

CountStep(k) ==
    Active(ledger, k) =>
        /\ Active(ledger', k)
        /\ IF SuccessfulIncrementOf(k)
           THEN /\ ~PlusN(CountOf(ledger, k), 1).overflow
                /\ CountOf(ledger', k) = PlusN(CountOf(ledger, k), 1).value
           ELSE CountOf(ledger', k) = CountOf(ledger, k)

C17_CountOnlyGrowsByOne == [][\A k \in Keys : CountStep(k)]_vars

C17_Witness ==
    /\ IsIncrement /\ result = "Ok"
    /\ inv.accounts[1] = "other"
    /\ committed = 3
    /\ hist["counter"].active /\ hist["counter"].n = 1
    /\ hist["counter"].c0 = MaxMinusOne
    /\ CountOf(ledger, "counter") = U64_MAX
    /\ CountOf(pre, "counter") = U64_MAX
    /\ CountOf(ledger, "other") = PlusN(CountOf(pre, "other"), 1).value


\* C18: a successful increment changes only the 8 data bytes of the first
\* account it was given: that account's owner, balance and data length, and
\* every other account of the ledger, the further accounts of the list
\* included, are as they were before the invocation.
C18_IncrementFrame ==
    (IsIncrement /\ result = "Ok") =>
        /\ Len(inv.accounts) >= 1
        /\ LET k == inv.accounts[1] IN
           /\ ledger[k].owner = pre[k].owner
           /\ ledger[k].lamports = pre[k].lamports
           /\ Len(ledger[k].data) = 8
           /\ Len(pre[k].data) = 8
           /\ ledger[k].data # pre[k].data
           /\ \A j \in Keys \ {k} : ledger[j] = pre[j]

C18_Witness ==
    /\ IsIncrement /\ result = "Ok"
    /\ inv.accounts = <<"counter", "other", "payer">>
    /\ Active(pre, "counter") /\ Active(pre, "other")
    /\ ledger["counter"].data # pre["counter"].data
    /\ ledger["other"] = pre["other"]
    /\ ledger["payer"] = pre["payer"]

====
